---- MODULE Spec2Model ----
(***************************************************************************)
(* Model of src/toil/wdl/wdltoil.py: the translation of a WDL workflow     *)
(* into Toil jobs (create_subgraph and the run methods of the job classes) *)
(* and the propagation of bindings between them (combine_bindings).        *)
(*                                                                         *)
(* Names are paths (sequences of components, <<"t","out">> for "t.out"),   *)
(* an environment (WDL.Env.Bindings) is a function from names to values,   *)
(* a value is a tagged record.  A job's return value and every element of  *)
(* a prev_node_results list is an Item: concrete bindings or the promise   *)
(* (rv()) of a job.                                                        *)
(***************************************************************************)
EXTENDS Integers, Sequences, FiniteSets, TLC

VARIABLES
  input,      \* what main was given: [doc, seed, len, restart]
  main,       \* how far main got: "start", "started", "restarted" or its error
  fs,         \* the job's file store and local files: [pc, local, store, virt, last]
  jobs,       \* every Toil job created so far, by index
  children,   \* addChild edges <<parent, child>>
  followOns,  \* addFollowOn edges <<predecessor, follow-on>>
  frame,      \* the run() of the section job in progress (create_subgraph locals)
  subgraphs,  \* the calls of create_subgraph that returned: arguments and result
  prior,      \* the final environment of an earlier complete run, if any
  cb          \* a direct call of combine_bindings: [pc, in, out, in2, out2]

vars == <<input, main, fs, jobs, children, followOns, frame, subgraphs, prior, cb>>

(* ------------------------------ bounds --------------------------------- *)

\* initial bindings bind their names to 1..MaxSeedVal
MaxSeedVal == 2
\* a scatter runs over an array of 0..MaxScatterLen elements
MaxScatterLen == 2
\* combine_bindings is called directly on lists of up to MaxListLen environments
MaxListLen == 3
\* the file store holds up to MaxStored files
MaxStored == 2

(* ------------------------ values and environments ---------------------- *)

IntV(n) == [k |-> "Int", v |-> n]

EnvV(e) == [k |-> "Bindings", v |-> e]

EmptyEnv == << >>

\* Bindings.bind(name, value): a new environment, name shadowed if present
Bind(env, name, value) ==
  [n \in (DOMAIN env) \cup {name} |-> IF n = name THEN value ELSE env[n]]

\* len(bindings): the number of names bound
EnvLen(env) == Cardinality(DOMAIN env)

\* Bindings.enter_namespace(ns): the bindings under ns, with ns stripped
EnterNamespace(env, ns) ==
  LET inside == {n \in DOMAIN env : Len(n) > 1 /\ n[1] = ns}
  IN  [m \in {Tail(n) : n \in inside} |-> env[<<ns>> \o m]]

\* Bindings.wrap_namespace(ns): every binding renamed ns.<binding>
WrapNamespace(env, ns) ==
  [m \in {<<ns>> \o n : n \in DOMAIN env} |-> env[Tail(m)]]

\* WDL.Env.merge(*args): right-biased union, on a conflict the last
\* argument that binds the name wins
WDL_Env_merge(args) ==
  [n \in UNION {DOMAIN args[i] : i \in DOMAIN args} |->
     LET binding == {i \in DOMAIN args : n \in DOMAIN args[i]}
         last == CHOOSE i \in binding : \A j \in binding : j <= i
     IN  args[last][n]]

\* the place of element i of the list once sorted by size: after every
\* smaller element and after the elements of its size that precede it (what
\* a stable sort does)
PlaceByLen(all_bindings, i) ==
  Cardinality({j \in DOMAIN all_bindings :
                 \/ EnvLen(all_bindings[j]) < EnvLen(all_bindings[i])
                 \/ EnvLen(all_bindings[j]) = EnvLen(all_bindings[i]) /\ j <= i})

\* sorted(all_bindings, key=lambda x: len(x)): ascending, stable
SortedByLen(all_bindings) ==
  [p \in DOMAIN all_bindings |->
     all_bindings[CHOOSE i \in DOMAIN all_bindings : PlaceByLen(all_bindings, i) = p]]

\* combine_bindings without the sort (the list merged in the order given)
combine_bindings_unsorted(all_bindings) == WDL_Env_merge(all_bindings)

combine_bindings(all_bindings) == WDL_Env_merge(SortedByLen(all_bindings))

(* ------------------- expressions (the WDL evaluator) ------------------- *)

\* an expression adds a constant to the values of the names it reads
Expr(const, reads) == [const |-> const, reads |-> reads]

NoExpr == Expr(0, << >>)

\* a name read that the environment does not bind is a name-resolution error
CanEval(expr, env) == \A i \in DOMAIN expr.reads : expr.reads[i] \in DOMAIN env

RECURSIVE SumOf(_, _)
SumOf(reads, env) ==
  IF Len(reads) = 0 THEN 0 ELSE env[Head(reads)].v + SumOf(Tail(reads), env)

\* expression.eval(environment, stdlib)
Eval(expr, env) == IntV(expr.const + SumOf(expr.reads, env))

\* a declaration or a call input: a name and its expression
Named(name, const, reads) == [name |-> <<name>>, expr |-> Expr(const, reads)]

(* --------------------------- the WDL documents ------------------------- *)

NoCallee == [kind |-> "None", name |-> ""]

\* WDL.Tree.Decl in a body
DeclNode(name, const, reads, deps) ==
  [kind |-> "Decl", name |-> name, expr |-> Expr(const, reads), deps |-> deps,
   variable |-> "", base |-> 0, literal |-> FALSE, body |-> {}, callee |-> NoCallee,
   inputs |-> << >>]

\* WDL.Tree.Scatter: scatter (variable in array) { body }, the array either
\* the literal [base+1] or [base+1 .. base+len], len elements being what the
\* run was given
ScatterNode(variable, base, literal, body, deps) ==
  [kind |-> "Scatter", name |-> "", expr |-> NoExpr, deps |-> deps,
   variable |-> variable, base |-> base, literal |-> literal, body |-> body,
   callee |-> NoCallee, inputs |-> << >>]

\* WDL.Tree.Call: call callee as name { input: inputs }
CallNode(name, calleeKind, calleeName, inputs, deps) ==
  [kind |-> "Call", name |-> name, expr |-> NoExpr, deps |-> deps,
   variable |-> "", base |-> 0, literal |-> FALSE, body |-> {},
   callee |-> [kind |-> calleeKind, name |-> calleeName], inputs |-> inputs]

\* WDL.Tree.Conditional: if (expr) { body }, a workflow node that is not a
\* Decl, a Call or a Scatter
ConditionalNode(body, deps) ==
  [kind |-> "Conditional", name |-> "", expr |-> NoExpr, deps |-> deps,
   variable |-> "", base |-> 0, literal |-> FALSE, body |-> body,
   callee |-> NoCallee, inputs |-> << >>]

\* the nodes of the documents, by workflow_node_id
Node(id) ==
  CASE id = "decl-a" -> DeclNode("a", 1, << <<"x">> >>, {"decl-x"})
    [] id = "decl-b" -> DeclNode("b", 1, << <<"a">> >>, {"decl-a"})
    [] id = "decl-c" -> DeclNode("c", 0, << <<"b">>, <<"a">> >>, {"decl-a", "decl-b"})
    [] id = "decl-d" -> DeclNode("d", 2, << <<"x">> >>, {"decl-x"})
    [] id = "scatter-p" -> ScatterNode("i", 0, FALSE, {"decl-s"}, {})
    [] id = "decl-s" -> DeclNode("s", 20, << <<"i">>, <<"i">> >>, {"scatter-p"})
    [] id = "scatter-q" -> ScatterNode("i", 10, TRUE, {"decl-t"}, {})
    [] id = "decl-t" -> DeclNode("t", 0, << <<"i">> >>, {"scatter-q"})
    [] id = "call-t" -> CallNode("t", "Task", "T", << Named("p", 3, << >>) >>, {})
    [] id = "call-cw" -> CallNode("cw", "Workflow", "sub", << Named("q", 4, << >>) >>, {})
    [] id = "decl-y" -> DeclNode("y", 1, << <<"cw", "z">> >>, {"call-cw"})
    [] id = "decl-z" -> DeclNode("z", 1, << <<"q">> >>, {"decl-q"})
    [] id = "decl-k" -> DeclNode("k", 3, << >>, {})
    [] id = "call-n" -> CallNode("n", "None", "", << >>, {})
    [] id = "cond-n" -> ConditionalNode({"decl-k"}, {})
    [] id = "decl-e" -> DeclNode("e", 1, << >>, {})
    [] id = "decl-u" -> DeclNode("u", 0, << <<"e">>, <<"v">> >>, {"decl-e", "decl-v"})
    [] id = "decl-v" -> DeclNode("v", 1, << <<"u">> >>, {"decl-u"})
    [] id = "decl-w" -> DeclNode("w", 1, << <<"v">> >>, {"decl-v"})
    [] id = "decl-r" -> DeclNode("r", 1, << <<"r">> >>, {"decl-r"})
    [] id = "call-f" -> CallNode("f", "Task", "F", << Named("p", 3, << >>) >>, {})

\* WDL.Tree.Workflow: the input declarations and the body, by workflow name
Workflow(name) ==
  CASE name = "dag" ->
         [inputs |-> << Named("x", 0, << >>) >>, body |-> {"decl-a", "decl-b", "decl-c", "decl-d"}]
    [] name = "twin" ->
         [inputs |-> << Named("x", 0, << >>) >>, body |-> {"scatter-p", "scatter-q"}]
    [] name = "call" ->
         [inputs |-> << Named("x", 0, << >>) >>, body |-> {"call-t", "call-cw", "decl-y"}]
    [] name = "empty" ->
         [inputs |-> << Named("x", 0, << >>) >>, body |-> {}]
    [] name = "sub" ->
         [inputs |-> << Named("q", 9, << >>) >>, body |-> {"decl-z"}]
    [] name = "bare" ->
         [inputs |-> << >>, body |-> {"decl-k"}]
    [] name = "badcall" ->
         [inputs |-> << Named("x", 0, << >>) >>, body |-> {"call-n"}]
    [] name = "cond" ->
         [inputs |-> << Named("x", 0, << >>) >>, body |-> {"cond-n"}]
    [] name = "cycle" ->
         [inputs |-> << Named("x", 0, << >>) >>,
          body |-> {"decl-e", "decl-u", "decl-v", "decl-w", "decl-r"}]
    [] name = "fail" ->
         [inputs |-> << Named("x", 0, << >>) >>, body |-> {"call-f"}]

\* WDL.Tree.Task, by task name: the declarations, the runtime section, the
\* command with the names it reads and the exit code the shell gives it
Task(name) ==
  CASE name = "T" ->
         [inputs |-> << Named("p", 0, << >>) >>,
          postinputs |-> << Named("r", 1, << <<"p">> >>) >>,
          runtime |-> << Named("cpu", 0, << <<"p">> >>) >>,
          command |-> TRUE, reads |-> << <<"p">>, <<"r">> >>, exit |-> 0,
          outputs |-> << Named("out", 0, << <<"r">> >>) >>]
    [] name = "F" ->
         [inputs |-> << Named("p", 0, << >>) >>,
          postinputs |-> << Named("r", 1, << <<"p">> >>) >>,
          runtime |-> << >>,
          command |-> TRUE, reads |-> << <<"r">> >>, exit |-> 1,
          outputs |-> << Named("out", 0, << <<"r">> >>) >>]

\* the documents main can be given; "none" is a document of tasks only
\* (document.workflow is None), "bare" a workflow without an input section,
\* "cycle" a workflow whose body has dependency cycles
Docs ==
  {"dag", "twin", "call", "empty", "bare", "badcall", "cond", "fail", "cycle", "none"}

HasWorkflow(doc) == doc # "none"

HasScatter(doc) ==
  HasWorkflow(doc) /\ \E id \in Workflow(doc).body : Node(id).kind = "Scatter"

\* names the initial bindings of a run of the document bind, or not (the
\* other inputs are left to their defaults)
SeedNames(doc) ==
  CASE doc = "dag" -> {<<"x">>, <<"a">>}
    [] doc = "call" -> {<<"cw", "q">>}
    [] doc \in {"twin", "bare", "none"} -> {}
    [] OTHER -> {<<"x">>}

SeedEnvs(doc) ==
  UNION {[S -> {IntV(v) : v \in 1..MaxSeedVal}] : S \in SUBSET SeedNames(doc)}

AllSeedEnvs == UNION {SeedEnvs(doc) : doc \in Docs}

(* ------------------------------ jobs ----------------------------------- *)

\* concrete bindings in a prev_node_results list or as a return value
Val(env) == [t |-> "val", env |-> env, job |-> 0]

\* job.rv(): the promise of the return value of a job
Rv(j) == [t |-> "rv", env |-> EmptyEnv, job |-> j]

NoItem == [t |-> "none", env |-> EmptyEnv, job |-> 0]

\* Job.__init__ of each job class: what the job is about and its predecessors' results
NewJob(kind, ref, prev_node_results) ==
  [kind |-> kind, ref |-> ref, prev |-> prev_node_results,
   status |-> "new", rv |-> NoItem, err |-> "", steps |-> << >>]

NoJob == 0

IdleFrame ==
  [job |-> NoJob, pc |-> "idle", nodes |-> {}, environment |-> EmptyEnv,
   dependency_ids |-> << >>, outstanding |-> << >>, dependent_ids |-> << >>,
   toil_job |-> << >>, leaf_ids |-> {}, ready |-> {}, first |-> 0,
   bindings |-> EmptyEnv, items |-> << >>, scatter_jobs |-> << >>]

IdleCb == [pc |-> "off", in |-> << >>, out |-> EmptyEnv, in2 |-> << >>, out2 |-> EmptyEnv]

RECURSIVE Resolved(_)
\* a promise is fulfilled once the job it names has returned, through every
\* promise that job returned in turn
Resolved(item) ==
  \/ item.t = "val"
  \/ /\ item.t = "rv"
     /\ jobs[item.job].status = "done"
     /\ Resolved(jobs[item.job].rv)

RECURSIVE Resolve(_)
\* the bindings a fulfilled promise stands for
Resolve(item) ==
  IF item.t = "val" THEN item.env ELSE Resolve(jobs[item.job].rv)

ChildrenOf(p) == {e[2] : e \in {c \in children : c[1] = p}}

FollowOnsOf(p) == {e[2] : e \in {f \in followOns : f[1] = p}}

RECURSIVE FullyDone(_)
\* a job, its children and its follow-ons have all finished, recursively
FullyDone(j) ==
  /\ jobs[j].status = "done"
  /\ \A c \in ChildrenOf(j) : FullyDone(c)
  /\ \A f \in FollowOnsOf(j) : FullyDone(f)

\* a job has finished with everything it started under it
SubtreeDone(j) ==
  /\ jobs[j].status = "done"
  /\ \A c \in ChildrenOf(j) : FullyDone(c)

RootJob == 1

\* the engine starts a job that was submitted (the root, or a child or
\* follow-on of some job) once every job it is a child of has returned and
\* every job it follows on has finished with its descendants
Startable(j) ==
  /\ frame.job = NoJob
  /\ cb.pc = "off"
  /\ jobs[j].status = "new"
  /\ \/ j = RootJob
     \/ \E e \in children \cup followOns : e[2] = j
  /\ \A e \in children : e[2] = j => jobs[e[1]].status = "done"
  /\ \A e \in followOns : e[2] = j => SubtreeDone(e[1])

\* every prev_node_results entry of the job, resolved
PrevEnvs(j) == [i \in DOMAIN jobs[j].prev |-> Resolve(jobs[j].prev[i])]

AllResolved(j) == \A i \in DOMAIN jobs[j].prev : Resolved(jobs[j].prev[i])

\* the job returned
Finish(js, j, item) == [js EXCEPT ![j].status = "done", ![j].rv = item]

\* run() raised
Fail(js, j, err) == [js EXCEPT ![j].status = "failed", ![j].err = err]

(* ----------------------- evaluation helpers ----------------------------- *)

Failed(err) == [ok |-> FALSE, env |-> EmptyEnv, err |-> err]

Ok(env) == [ok |-> TRUE, env |-> env, err |-> ""]

RECURSIVE evaluate_call_inputs(_, _, _)
\* evaluate_call_inputs: every expression evaluated in environment and bound,
\* in turn, into bindings that start empty (acc)
evaluate_call_inputs(expressions, environment, acc) ==
  IF Len(expressions) = 0 THEN Ok(acc)
  ELSE LET e == Head(expressions)
       IN  IF ~CanEval(e.expr, environment) THEN Failed("EvalError")
           ELSE evaluate_call_inputs(Tail(expressions), environment,
                                     Bind(acc, e.name, Eval(e.expr, environment)))

\* evaluate_defaultable_decl that evaluates the default whether or not the
\* name is already defined
evaluate_decl_always(node, environment) == Eval(node.expr, environment)

\* evaluate_defaultable_decl: the value the environment already has for the
\* name, the evaluated expression otherwise
evaluate_defaultable_decl(node, environment) ==
  IF node.name \in DOMAIN environment
    THEN environment[node.name]
    ELSE Eval(node.expr, environment)

RECURSIVE BindDefaultable(_, _)
\* for decl in decls: bindings = bindings.bind(decl.name,
\* evaluate_defaultable_decl(decl, bindings, stdlib)); an expression that
\* cannot be evaluated raises
BindDefaultable(decls, bindings) ==
  IF Len(decls) = 0 THEN Ok(bindings)
  ELSE LET d == Head(decls)
       IN  IF d.name \notin DOMAIN bindings /\ ~CanEval(d.expr, bindings)
             THEN Failed("EvalError")
           ELSE BindDefaultable(Tail(decls),
                                Bind(bindings, d.name,
                                     evaluate_defaultable_decl(d, bindings)))

RECURSIVE BindOutputs(_, _, _)
\* for output_decl in outputs: output_bindings =
\* output_bindings.bind(output_decl.name, bindings, outputs_library)
BindOutputs(outputs, bindings, acc) ==
  IF Len(outputs) = 0 THEN acc
  ELSE BindOutputs(Tail(outputs), bindings, Bind(acc, Head(outputs).name, EnvV(bindings)))

\* the orders a set can be iterated in
Orderings(S) ==
  {f \in [1..Cardinality(S) -> S] : \A i, j \in DOMAIN f : i # j => f[i] # f[j]}

(* ------------------------- create_subgraph ----------------------------- *)

\* the dependencies of a node that are nodes of the list
InGraphDeps(nodes, id) == Node(id).deps \cap nodes

\* the first lines of create_subgraph, up to the loop: the locals of the call
\* made by section job self on (nodes, environment)
SubgraphFrame(f, self, nodes, environment) ==
  LET deps == [id \in nodes |-> InGraphDeps(nodes, id)]
  IN  [f EXCEPT
        !.job = self, !.pc = "loop", !.nodes = nodes, !.environment = environment,
        !.dependency_ids = deps,
        !.outstanding = deps,
        !.dependent_ids = [id \in nodes |-> {n \in nodes : id \in deps[n]}],
        !.toil_job = << >>,
        !.leaf_ids = {},
        !.ready = {id \in nodes : deps[id] = {}},
        !.first = Len(jobs)]

\* the happens-after edges of a new node job: every job as a child of the
\* section job instead of a follow-on of the jobs it reads
NodeEdgesAllChildren(self, prev_jobs, job) ==
  [children |-> {<<self, job>>}, followOns |-> {}]

\* the happens-after edges of a new node job: no job is made a child
NodeEdgesNoChild(self, prev_jobs, job) ==
  [children |-> {}, followOns |-> {<<prev_jobs[i], job>> : i \in DOMAIN prev_jobs}]

\* the happens-after edges of a new node job: a follow-on of every job it
\* reads, a child of the section job when it reads none
NodeEdges(self, prev_jobs, job) ==
  [children |-> IF Len(prev_jobs) = 0 THEN {<<self, job>>} ELSE {},
   followOns |-> {<<prev_jobs[i], job>> : i \in DOMAIN prev_jobs}]

\* rvs: the promises of the jobs read, then the section's environment
NodeRvs(prev_jobs, environment) ==
  [i \in DOMAIN prev_jobs |-> Rv(prev_jobs[i])] \o <<Val(environment)>>

\* the sink following on every node job, leaf or not
SinkEdgesAllNodes(self, toil_job, leaf_ids, sink) ==
  [children |-> {<<self, sink>>},
   followOns |-> {<<toil_job[id], sink>> : id \in DOMAIN toil_job}]

\* the sink: a child of the section job and a follow-on of every leaf job
SinkEdges(self, toil_job, leaf_ids, sink) ==
  [children |-> {<<self, sink>>},
   followOns |-> {<<toil_job[id], sink>> : id \in leaf_ids}]

\* leaf_rvs: the promises of the leaf jobs in the order the set is iterated
\* in, then the section's environment
LeafRvs(order, toil_job, environment) ==
  [i \in DOMAIN order |-> Rv(toil_job[order[i]])] \o <<Val(environment)>>

\* the dependents that become ready: every dependent, as soon as one of the
\* nodes it waits on is done
NowReadyAfterAny(dependents, outstanding) == dependents \cap DOMAIN outstanding

\* the dependents that become ready: none
NowReadyNever(dependents, outstanding) == {}

\* the dependents that become ready when a node is done: those with no
\* outstanding dependency left
NowReady(dependents, outstanding) == {n \in dependents : outstanding[n] = {}}

\* the loop of create_subgraph ending when no node is ready
LoopDoneWhenNoneReady(f) == f.ready = {}

\* the loop of create_subgraph ends when no node is outstanding:
\* while len(wdl_id_to_outstanding_dependency_ids) > 0
LoopDone(f) == DOMAIN f.outstanding = {}

\* one iteration of the loop of create_subgraph
SubgraphLoop ==
  /\ frame.pc = "loop"
  /\ ~LoopDone(frame)
  /\ IF frame.ready = {}
       THEN \* next(iter(ready_node_ids)) raises StopIteration
            /\ jobs' = Fail(jobs, frame.job, "StopIteration")
            /\ frame' = [frame EXCEPT !.job = NoJob, !.pc = "idle"]
            /\ UNCHANGED <<children, followOns>>
       ELSE \E node_id \in frame.ready :
            \E order \in Orderings(frame.dependency_ids[node_id]) :
              IF \E d \in frame.dependency_ids[node_id] : d \notin DOMAIN frame.toil_job
                THEN \* wdl_id_to_toil_job[prev_node_id] raises KeyError
                     /\ jobs' = Fail(jobs, frame.job, "KeyError")
                     /\ frame' = [frame EXCEPT !.job = NoJob, !.pc = "idle"]
                     /\ UNCHANGED <<children, followOns>>
                ELSE LET prev_jobs == [i \in DOMAIN order |-> frame.toil_job[order[i]]]
                         job == Len(jobs) + 1
                         edges == NodeEdges(frame.job, prev_jobs, job)
                         dependents == frame.dependent_ids[node_id]
                         out1 == [n \in (DOMAIN frame.outstanding) \ {node_id} |->
                                    frame.outstanding[n]]
                         out2 == [n \in DOMAIN out1 |->
                                    IF n \in dependents THEN out1[n] \ {node_id} ELSE out1[n]]
                     IN  /\ jobs' = Append(jobs, NewJob("Node", node_id,
                                                       NodeRvs(prev_jobs, frame.environment)))
                         /\ children' = children \cup edges.children
                         /\ followOns' = followOns \cup edges.followOns
                         /\ frame' = [frame EXCEPT
                              !.outstanding = out2,
                              !.toil_job = [n \in (DOMAIN frame.toil_job) \cup {node_id} |->
                                              IF n = node_id THEN job ELSE frame.toil_job[n]],
                              !.leaf_ids = IF dependents = {} THEN frame.leaf_ids \cup {node_id}
                                           ELSE frame.leaf_ids,
                              !.ready = (frame.ready \ {node_id})
                                          \cup NowReady(dependents, out2)]
  /\ UNCHANGED <<input, main, fs, subgraphs, prior, cb>>

\* the end of create_subgraph, and what its caller does with the sink:
\* WDLWorkflowJob.run returns its promise, WDLScatterJob.run keeps it and
\* goes on with the next item
SubgraphSink ==
  /\ frame.pc = "loop"
  /\ LoopDone(frame)
  /\ \E order \in Orderings(frame.leaf_ids) :
       LET sink == Len(jobs) + 1
           edges == SinkEdges(frame.job, frame.toil_job, frame.leaf_ids, sink)
           made == Append(jobs, NewJob("Combine", "",
                                       LeafRvs(order, frame.toil_job, frame.environment)))
       IN  /\ children' = children \cup edges.children
           /\ followOns' = followOns \cup edges.followOns
           /\ subgraphs' = Append(subgraphs,
                 [self |-> frame.job, nodes |-> frame.nodes,
                  environment |-> frame.environment, toil_job |-> frame.toil_job,
                  first |-> frame.first, sink |-> sink])
           /\ IF jobs[frame.job].kind = "Workflow"
                THEN /\ jobs' = Finish(made, frame.job, Rv(sink))
                     /\ frame' = [frame EXCEPT !.job = NoJob, !.pc = "idle"]
                ELSE /\ jobs' = made
                     /\ frame' = [frame EXCEPT !.pc = "scatter",
                                    !.scatter_jobs = Append(frame.scatter_jobs, sink)]
  /\ UNCHANGED <<input, main, fs, prior, cb>>

(* ---------------------------- the run methods ------------------------- *)

\* the Call branch submitting its three jobs as children only, none made a
\* follow-on of the one whose promise it takes
CallJobsNoFollowOns(self, node, incoming, input_bindings, first) ==
  LET passed_down_bindings == EnterNamespace(incoming, node.name)
      subjob == first + 1
      namespace_job == first + 2
      combine_job == first + 3
  IN  [made |-> << NewJob(node.callee.kind, node.callee.name,
                          <<Val(input_bindings), Val(passed_down_bindings)>>),
                   NewJob("Namespace", node.name, <<Rv(subjob)>>),
                   NewJob("Combine", "", <<Rv(namespace_job), Val(incoming)>>) >>,
       children |-> {<<self, subjob>>, <<self, namespace_job>>, <<self, combine_job>>},
       followOns |-> {},
       rv |-> Rv(combine_job)]

\* what the Call branch of WDLWorkflowNodeJob.run submits: the callee's job
\* with [input_bindings, passed_down_bindings], a namespace job after it and
\* a combine job after that, all children of the node job; the combine job's
\* promise is returned
CallJobs(self, node, incoming, input_bindings, first) ==
  LET passed_down_bindings == EnterNamespace(incoming, node.name)
      subjob == first + 1
      namespace_job == first + 2
      combine_job == first + 3
  IN  [made |-> << NewJob(node.callee.kind, node.callee.name,
                          <<Val(input_bindings), Val(passed_down_bindings)>>),
                   NewJob("Namespace", node.name, <<Rv(subjob)>>),
                   NewJob("Combine", "", <<Rv(namespace_job), Val(incoming)>>) >>,
       children |-> {<<self, subjob>>, <<self, namespace_job>>, <<self, combine_job>>},
       followOns |-> {<<subjob, namespace_job>>, <<namespace_job, combine_job>>},
       rv |-> Rv(combine_job)]

\* the last branch of WDLWorkflowNodeJob.run passing over the node: the
\* incoming bindings returned as they came
RunUnimplementedNodeSkipped(js, j, incoming_bindings) ==
  Finish(js, j, Val(incoming_bindings))

\* the last branch of WDLWorkflowNodeJob.run, for a node that is not a Decl,
\* a Call or a Scatter: raise WDL.Error.InvalidType(self._node, ...)
RunUnimplementedNode(js, j, incoming_bindings) ==
  Fail(js, j, "InvalidType")

\* WDLWorkflowNodeJob.run
RunNodeJob(j) ==
  /\ Startable(j)
  /\ jobs[j].kind = "Node"
  /\ LET node == Node(jobs[j].ref)
     IN  IF ~AllResolved(j)
           THEN /\ jobs' = Fail(jobs, j, "UnfulfilledPromise")
                /\ UNCHANGED <<children, followOns>>
         ELSE LET incoming_bindings == combine_bindings(PrevEnvs(j))
              IN  CASE node.kind = "Decl" ->
                         /\ jobs' = IF CanEval(node.expr, incoming_bindings)
                                      THEN Finish(jobs, j,
                                             Val(Bind(incoming_bindings, <<node.name>>,
                                                      Eval(node.expr, incoming_bindings))))
                                      ELSE Fail(jobs, j, "EvalError")
                         /\ UNCHANGED <<children, followOns>>
                    [] node.kind = "Call" ->
                         LET input_bindings ==
                               evaluate_call_inputs(node.inputs, incoming_bindings, EmptyEnv)
                             sub == CallJobs(j, node, incoming_bindings,
                                             input_bindings.env, Len(jobs))
                         IN  IF ~input_bindings.ok
                               THEN /\ jobs' = Fail(jobs, j, input_bindings.err)
                                    /\ UNCHANGED <<children, followOns>>
                             ELSE IF node.callee.kind \notin {"Workflow", "Task"}
                               THEN \* raise WDL.Error.InvalidType(node, ...): node is
                                    \* not a name of this scope
                                    /\ jobs' = Fail(jobs, j, "NameError")
                                    /\ UNCHANGED <<children, followOns>>
                             ELSE /\ jobs' = Finish(jobs \o sub.made, j, sub.rv)
                                  /\ children' = children \cup sub.children
                                  /\ followOns' = followOns \cup sub.followOns
                    [] node.kind = "Scatter" ->
                         LET subjob == Len(jobs) + 1
                         IN  /\ jobs' = Finish(
                                  Append(jobs, NewJob("Scatter", jobs[j].ref,
                                                      <<Val(incoming_bindings)>>)),
                                  j, Rv(subjob))
                             /\ children' = children \cup {<<j, subjob>>}
                             /\ UNCHANGED followOns
                    [] OTHER ->
                         /\ jobs' = RunUnimplementedNode(jobs, j, incoming_bindings)
                         /\ UNCHANGED <<children, followOns>>
  /\ UNCHANGED <<input, main, fs, frame, subgraphs, prior, cb>>

\* WDLCombineBindingsJob.run
RunCombineJob(j) ==
  /\ Startable(j)
  /\ jobs[j].kind = "Combine"
  /\ jobs' = IF AllResolved(j)
               THEN Finish(jobs, j, Val(combine_bindings(PrevEnvs(j))))
               ELSE Fail(jobs, j, "UnfulfilledPromise")
  /\ UNCHANGED <<input, main, fs, children, followOns, frame, subgraphs, prior, cb>>

\* WDLNamespaceBindingsJob.run
RunNamespaceJob(j) ==
  /\ Startable(j)
  /\ jobs[j].kind = "Namespace"
  /\ jobs' = IF AllResolved(j)
               THEN Finish(jobs, j,
                      Val(WrapNamespace(combine_bindings(PrevEnvs(j)), jobs[j].ref)))
               ELSE Fail(jobs, j, "UnfulfilledPromise")
  /\ UNCHANGED <<input, main, fs, children, followOns, frame, subgraphs, prior, cb>>

\* the steps a task job went through, kept with the job: the step's name
\* and the names bound when it was taken
Step(js, j, name, bindings) ==
  [js EXCEPT ![j].steps = Append(@, [step |-> name, bound |-> DOMAIN bindings])]

\* subprocess.call in place of check_call: the exit code is not looked at
call_unchecked(exit) == TRUE

\* subprocess.check_call(command, shell=True): raises CalledProcessError
\* unless the command exits with 0
check_call(exit) == exit = 0

\* WDLTaskJob.run
RunTaskJob(j) ==
  /\ Startable(j)
  /\ jobs[j].kind = "Task"
  /\ LET task == Task(jobs[j].ref)
     IN  IF ~AllResolved(j) THEN jobs' = Fail(jobs, j, "UnfulfilledPromise")
         ELSE LET inputs == BindDefaultable(task.inputs, combine_bindings(PrevEnvs(j)))
                  bindings == BindDefaultable(task.postinputs, inputs.env)
                  runtime_bindings == evaluate_call_inputs(task.runtime, bindings.env,
                                                           EmptyEnv)
                  s1 == Step(jobs, j, "inputs", inputs.env)
                  s2 == Step(s1, j, "postinputs", bindings.env)
                  s3 == Step(s2, j, "runtime", bindings.env)
                  s4 == IF task.command THEN Step(s3, j, "command", bindings.env) ELSE s3
                  s5 == Step(s4, j, "outputs", bindings.env)
              IN  IF ~inputs.ok THEN jobs' = Fail(jobs, j, inputs.err)
                  ELSE IF ~bindings.ok THEN jobs' = Fail(s1, j, bindings.err)
                  ELSE IF ~runtime_bindings.ok THEN jobs' = Fail(s2, j, runtime_bindings.err)
                  ELSE IF task.command /\ ~CanEval(Expr(0, task.reads), bindings.env)
                    THEN jobs' = Fail(s3, j, "EvalError")
                  ELSE IF task.command /\ ~check_call(task.exit)
                    THEN jobs' = Fail(s4, j, "CalledProcessError")
                  ELSE jobs' = Finish(s5, j,
                                 Val(BindOutputs(task.outputs, bindings.env, EmptyEnv)))
  /\ UNCHANGED <<input, main, fs, children, followOns, frame, subgraphs, prior, cb>>

\* WDLWorkflowJob.run, up to the loop of create_subgraph
RunWorkflowJob(j) ==
  /\ Startable(j)
  /\ jobs[j].kind = "Workflow"
  /\ LET workflow == Workflow(jobs[j].ref)
     IN  IF ~AllResolved(j)
           THEN jobs' = Fail(jobs, j, "UnfulfilledPromise") /\ UNCHANGED frame
         ELSE LET bindings == BindDefaultable(workflow.inputs,
                                              combine_bindings(PrevEnvs(j)))
              IN  IF ~bindings.ok
                    THEN jobs' = Fail(jobs, j, bindings.err) /\ UNCHANGED frame
                  ELSE /\ jobs' = [jobs EXCEPT ![j].status = "running"]
                       /\ frame' = SubgraphFrame(frame, j, workflow.body, bindings.env)
  /\ UNCHANGED <<input, main, fs, children, followOns, subgraphs, prior, cb>>

\* the array a scatter expression evaluates to
ScatterArray(node) ==
  [i \in 1..(IF node.literal THEN 1 ELSE input.len) |-> IntV(node.base + i)]

\* WDLScatterJob.run, up to the loop over the items
RunScatterJob(j) ==
  /\ Startable(j)
  /\ jobs[j].kind = "Scatter"
  /\ IF ~AllResolved(j)
       THEN jobs' = Fail(jobs, j, "UnfulfilledPromise") /\ UNCHANGED frame
     ELSE /\ jobs' = [jobs EXCEPT ![j].status = "running"]
          /\ frame' = [frame EXCEPT
               !.job = j, !.pc = "scatter",
               !.bindings = combine_bindings(PrevEnvs(j)),
               !.items = ScatterArray(Node(jobs[j].ref)),
               !.scatter_jobs = << >>]
  /\ UNCHANGED <<input, main, fs, children, followOns, subgraphs, prior, cb>>

\* the bindings of one instantiation of the scatter body
ChildBindings(bindings, variable, item) == Bind(bindings, <<variable>>, item)

\* WDLScatterJob.run: the next item, up to the loop of create_subgraph
ScatterItem ==
  /\ frame.pc = "scatter"
  /\ Len(frame.items) > 0
  /\ LET scatter == Node(jobs[frame.job].ref)
         child_bindings == ChildBindings(frame.bindings, scatter.variable,
                                         Head(frame.items))
     IN  frame' = SubgraphFrame([frame EXCEPT !.items = Tail(frame.items)],
                                frame.job, scatter.body, child_bindings)
  /\ UNCHANGED <<input, main, fs, jobs, children, followOns, subgraphs, prior, cb>>

\* the gather job given the promise of the last sink only
GatherPrevLast(scatter_jobs) ==
  IF Len(scatter_jobs) = 0 THEN << >>
  ELSE <<Rv(scatter_jobs[Len(scatter_jobs)])>>

\* the predecessors' results of the gather job: the promise of every sink
GatherPrev(scatter_jobs) == [i \in DOMAIN scatter_jobs |-> Rv(scatter_jobs[i])]

\* WDLScatterJob.run after the loop: the gather job
ScatterGather ==
  /\ frame.pc = "scatter"
  /\ Len(frame.items) = 0
  /\ LET gather_job == Len(jobs) + 1
     IN  /\ jobs' = Finish(Append(jobs, NewJob("Combine", "",
                                               GatherPrev(frame.scatter_jobs))),
                           frame.job, Rv(gather_job))
         /\ children' = children \cup {<<frame.job, gather_job>>}
         /\ followOns' = followOns \cup
                           {<<frame.scatter_jobs[i], gather_job>> :
                              i \in DOMAIN frame.scatter_jobs}
  /\ frame' = [frame EXCEPT !.job = NoJob, !.pc = "idle"]
  /\ UNCHANGED <<input, main, fs, subgraphs, prior, cb>>

(* --------------------------- the workflow run -------------------------- *)

Inputs ==
  {i \in [doc : Docs, seed : AllSeedEnvs, len : 0..MaxScatterLen, restart : BOOLEAN] :
     /\ i.seed \in SeedEnvs(i.doc)
     /\ HasScatter(i.doc) \/ i.len = 0
     /\ i.restart => i.seed = EmptyEnv /\ i.len = 0}

\* no file was written or read
IdleFs == [pc |-> "off", local |-> << >>, store |-> << >>, virt |-> << >>,
           last |-> [name |-> << >>, path |-> << >>]]

Init ==
  /\ input \in Inputs
  /\ main = "start"
  /\ fs = IdleFs
  /\ jobs = << >>
  /\ children = {}
  /\ followOns = {}
  /\ frame = IdleFrame
  /\ subgraphs = << >>
  /\ prior = NoItem
  /\ cb = IdleCb

\* main: the document is loaded, the inputs are read when the workflow has
\* an input section, and the root job is made and started
Main ==
  /\ main = "start"
  /\ IF input.restart
       THEN \* toil.restart()
            main' = "restarted" /\ UNCHANGED jobs
     ELSE IF ~HasWorkflow(input.doc)
       THEN \* logger.crical: the logger has no such method
            main' = "AttributeError" /\ UNCHANGED jobs
     ELSE IF Len(Workflow(input.doc).inputs) > 0
       THEN /\ jobs' = << NewJob("Workflow", input.doc, <<Val(input.seed)>>) >>
            /\ main' = "started"
     ELSE \* input_bindings was never assigned
          main' = "UnboundLocalError" /\ UNCHANGED jobs
  /\ UNCHANGED <<input, fs, children, followOns, frame, subgraphs, prior, cb>>

Next ==
  \/ Main
  \/ \E j \in DOMAIN jobs : RunWorkflowJob(j)
  \/ \E j \in DOMAIN jobs : RunNodeJob(j)
  \/ \E j \in DOMAIN jobs : RunCombineJob(j)
  \/ \E j \in DOMAIN jobs : RunNamespaceJob(j)
  \/ \E j \in DOMAIN jobs : RunTaskJob(j)
  \/ \E j \in DOMAIN jobs : RunScatterJob(j)
  \/ SubgraphLoop
  \/ SubgraphSink
  \/ ScatterItem
  \/ ScatterGather

Spec == Init /\ [][Next]_vars

\* the engine runs something whenever something can run
LiveSpec == Spec /\ WF_vars(Next)

(* ------------------------- two runs of one workflow -------------------- *)

AllJobsDone == frame.job = NoJob /\ \A j \in DOMAIN jobs : jobs[j].status = "done"

AnyFailed == \E j \in DOMAIN jobs : jobs[j].status = "failed"

RootResolved == Len(jobs) > 0 /\ Resolved(Rv(RootJob))

\* main again on the same document and inputs, the final environment of the
\* run that ended being kept for comparison
Rerun ==
  /\ cb.pc = "off"
  /\ prior.t = "none"
  /\ AllJobsDone
  /\ RootResolved
  /\ prior' = Val(Resolve(Rv(RootJob)))
  /\ jobs' = << NewJob("Workflow", input.doc, <<Val(input.seed)>>) >>
  /\ children' = {}
  /\ followOns' = {}
  /\ frame' = IdleFrame
  /\ subgraphs' = << >>
  /\ UNCHANGED <<input, main, fs, cb>>

NextTwoRuns == Next \/ Rerun

SpecTwoRuns == Init /\ [][NextTwoRuns]_vars

(* --------------------- combine_bindings called directly ---------------- *)

CbNames == {<<"x">>, <<"y">>}

CbValues == {IntV(1), IntV(2)}

CbEnvs == UNION {[S -> CbValues] : S \in SUBSET CbNames}

CbLists == UNION {[1..n -> CbEnvs] : n \in 0..MaxListLen}

InitCombine ==
  /\ input = [doc |-> "empty", seed |-> EmptyEnv, len |-> 0, restart |-> FALSE]
  /\ main = "start"
  /\ fs = IdleFs
  /\ jobs = << >>
  /\ children = {}
  /\ followOns = {}
  /\ frame = IdleFrame
  /\ subgraphs = << >>
  /\ prior = NoItem
  /\ cb \in {[IdleCb EXCEPT !.pc = "in", !.in = l] : l \in CbLists}

\* combine_bindings(all_bindings)
CallCombine ==
  /\ cb.pc = "in"
  /\ cb' = [cb EXCEPT !.pc = "called", !.out = combine_bindings(cb.in)]
  /\ UNCHANGED <<input, main, fs, jobs, children, followOns, frame, subgraphs, prior>>

\* combine_bindings on the same environments in another order
CallCombineReordered ==
  /\ cb.pc = "called"
  /\ \E order \in Orderings(DOMAIN cb.in) :
       LET reordered == [i \in DOMAIN cb.in |-> cb.in[order[i]]]
       IN  cb' = [cb EXCEPT !.pc = "both", !.in2 = reordered,
                            !.out2 = combine_bindings(reordered)]
  /\ UNCHANGED <<input, main, fs, jobs, children, followOns, frame, subgraphs, prior>>

NextCombine == CallCombine \/ CallCombineReordered

SpecCombine == InitCombine /\ [][NextCombine]_vars

(* ------------------ file names and the job's file store --------------- *)

\* a file name is a string, here the sequence of its parts: <<"toilfile:",
\* size, id>>, <<"http:", rest>>, <<path>>
StartsWith(filename, prefix) == Len(filename) > 0 /\ filename[1] = prefix

\* what the files can hold, and len() of it
Contents == {"a", "bb"}

Size(contents) == IF contents = "a" THEN 1 ELSE 2

InputPaths == {<<"/in/1">>, <<"/in/2">>}

Urls == {<<"http:", "//host/u">>}

\* what is behind the URL
Remote(url) == "bb"

\* FileID.pack(): the size and the id of the handle, as text
pack(file_id) == <<ToString(file_id.size), file_id.id>>

\* FileID.unpack(packed): the handle parsed back from that text
unpack(packed) ==
  [id |-> packed[2],
   size |-> CHOOSE n \in 0..2 : ToString(n) = packed[1]]

\* the id of the next file stored
NewFileId(f) == <<"file", ToString(Cardinality(DOMAIN f.store) + 1)>>

\* file_store.writeGlobalFile(path): the file's contents as they are now are
\* copied into the store under a new handle
writeGlobalFile(f, path) ==
  LET id == NewFileId(f)
  IN  [fs |-> [f EXCEPT !.store = [i \in (DOMAIN f.store) \cup {id} |->
                                     IF i = id THEN f.local[path] ELSE f.store[i]]],
       file_id |-> [id |-> id, size |-> Size(f.local[path])]]

\* file_store.import_file(url): what is behind the URL stored under a new handle
import_file(f, url) ==
  LET id == NewFileId(f)
  IN  [fs |-> [f EXCEPT !.store = [i \in (DOMAIN f.store) \cup {id} |->
                                     IF i = id THEN Remote(url) ELSE f.store[i]]],
       file_id |-> [id |-> id, size |-> Size(Remote(url))]]

\* file_store.readGlobalFile(file_id): a local copy of the stored file, in the
\* job's temporary directory
readGlobalFile(f, file_id) ==
  LET path == <<"/tmp/", file_id.id>>
  IN  [fs |-> [f EXCEPT !.local = [q \in (DOMAIN f.local) \cup {path} |->
                                     IF q = path THEN f.store[file_id.id]
                                     ELSE f.local[q]]],
       result |-> path]

\* _virtualize_filename without the 'toilfile:' prefix on what it returns
virtualize_filename_no_prefix(f, filename) ==
  IF StartsWith(filename, "toilfile:")
    THEN [fs |-> f, result |-> filename]
    ELSE LET w == writeGlobalFile(f, filename)
         IN  [fs |-> w.fs, result |-> pack(w.file_id)]

\* ToilWDLStdLibBase._virtualize_filename
virtualize_filename(f, filename) ==
  IF StartsWith(filename, "toilfile:")
    THEN [fs |-> f, result |-> filename]
    ELSE LET w == writeGlobalFile(f, filename)
         IN  [fs |-> w.fs, result |-> <<"toilfile:">> \o pack(w.file_id)]

\* ToilWDLStdLibBase._devirtualize_filename
devirtualize_filename(f, filename) ==
  IF StartsWith(filename, "toilfile:")
    THEN readGlobalFile(f, unpack(Tail(filename)))
  ELSE IF \/ StartsWith(filename, "http:")
          \/ StartsWith(filename, "https:")
          \/ StartsWith(filename, "s3:")
    THEN LET imported == import_file(f, filename)
         IN  readGlobalFile(imported.fs, imported.file_id)
  ELSE [fs |-> f, result |-> filename]

InitFiles ==
  /\ input = [doc |-> "empty", seed |-> EmptyEnv, len |-> 0, restart |-> FALSE]
  /\ main = "start"
  /\ fs \in {[IdleFs EXCEPT !.pc = "on", !.local = l] : l \in [InputPaths -> Contents]}
  /\ jobs = << >>
  /\ children = {}
  /\ followOns = {}
  /\ frame = IdleFrame
  /\ subgraphs = << >>
  /\ prior = NoItem
  /\ cb = IdleCb

\* the names virtualized so far
Virtualized == DOMAIN fs.virt

\* a File value leaves an evaluation: _virtualize_filename on a local file or
\* on a name that is virtual already; what a local file held at that time is
\* kept with the name returned
Virtualize ==
  /\ fs.pc # "off"
  /\ \E filename \in (DOMAIN fs.local) \cup Virtualized :
       LET v == virtualize_filename(fs, filename)
       IN  /\ Cardinality(DOMAIN v.fs.store) <= MaxStored
           /\ fs' = [v.fs EXCEPT
                 !.pc = "virtualized",
                 !.virt = IF StartsWith(filename, "toilfile:") THEN fs.virt
                          ELSE [n \in Virtualized \cup {v.result} |->
                                  IF n = v.result
                                    THEN [path |-> filename, contents |-> fs.local[filename]]
                                    ELSE fs.virt[n]],
                 !.last = [name |-> filename, path |-> v.result]]
  /\ UNCHANGED <<input, main, jobs, children, followOns, frame, subgraphs, prior, cb>>

\* a File value is read: _devirtualize_filename on a virtual name, a URL or a
\* local path
Devirtualize ==
  /\ fs.pc # "off"
  /\ \E filename \in Virtualized \cup Urls \cup DOMAIN fs.local :
       LET d == devirtualize_filename(fs, filename)
       IN  /\ Cardinality(DOMAIN d.fs.store) <= MaxStored
           /\ fs' = [d.fs EXCEPT !.pc = "devirtualized",
                                 !.last = [name |-> filename, path |-> d.result]]
  /\ UNCHANGED <<input, main, jobs, children, followOns, frame, subgraphs, prior, cb>>

\* a command overwrites one of its local files
WriteLocal ==
  /\ fs.pc # "off"
  /\ \E path \in InputPaths : \E contents \in Contents \ {fs.local[path]} :
       fs' = [fs EXCEPT !.local[path] = contents]
  /\ UNCHANGED <<input, main, jobs, children, followOns, frame, subgraphs, prior, cb>>

NextFiles == Virtualize \/ Devirtualize \/ WriteLocal

SpecFiles == InitFiles /\ [][NextFiles]_vars

(* ------------------------------- claims -------------------------------- *)

\* C1: no unit starts while a future of its prev_node_results is unresolved:
\* whenever the engine can start a job, every promise in its list (followed
\* through the promises the producing jobs returned) is fulfilled, and no job
\* ever ran into an unfulfilled promise.
C1_NoStartBeforeFuturesResolve ==
  \A j \in DOMAIN jobs :
    /\ Startable(j) => AllResolved(j)
    /\ jobs[j].err # "UnfulfilledPromise"

\* a node job ran that read a promise whose job had itself returned a promise
C1_Witness ==
  \E j \in DOMAIN jobs :
    /\ jobs[j].kind = "Node"
    /\ jobs[j].status = "done"
    /\ \E i \in DOMAIN jobs[j].prev :
         /\ jobs[j].prev[i].t = "rv"
         /\ jobs[jobs[j].prev[i].job].rv.t = "rv"

\* the calls of create_subgraph, returned or in progress: nodes and jobs made
Emitted ==
  {[self |-> subgraphs[k].self, nodes |-> subgraphs[k].nodes,
    toil_job |-> subgraphs[k].toil_job] : k \in DOMAIN subgraphs}
  \cup (IF frame.pc = "loop"
          THEN {[self |-> frame.job, nodes |-> frame.nodes, toil_job |-> frame.toil_job]}
          ELSE {})

FollowedBy(j) == {e[1] : e \in {f \in followOns : f[2] = j}}

ParentsOf(j) == {e[1] : e \in {c \in children : c[2] = j}}

\* C2: the node job of n follows on the node job of d exactly when d is a
\* dependency of n that is in the node list; a dependency outside the list
\* gives no edge (a node with none in the list is only a child of the section
\* job), and every edge goes from an earlier job to a later one, so the jobs
\* form a DAG compatible with the dependencies.
C2_FollowOnIffInGraphDependency ==
  /\ \A e \in children \cup followOns : e[1] < e[2]
  /\ \A g \in Emitted :
       \A n \in DOMAIN g.toil_job :
         /\ FollowedBy(g.toil_job[n]) =
              {g.toil_job[d] : d \in Node(n).deps \cap g.nodes}
         /\ \A d \in DOMAIN g.toil_job :
              <<g.toil_job[d], g.toil_job[n]>> \in followOns <=> d \in Node(n).deps
         /\ ParentsOf(g.toil_job[n]) \subseteq {g.self}
         /\ Node(n).deps \cap g.nodes = {} => ParentsOf(g.toil_job[n]) = {g.self}

\* a subgraph was built with a node whose dependencies are all outside the
\* list and a node with two dependencies inside it
C2_Witness ==
  \E k \in DOMAIN subgraphs :
    /\ "decl-a" \in DOMAIN subgraphs[k].toil_job
    /\ "decl-c" \in DOMAIN subgraphs[k].toil_job

\* C3: every call of create_subgraph makes exactly one combine job, the sink,
\* after one node job per node; the sink follows on the jobs of exactly the
\* nodes nothing in the list depends on, and its predecessors' results are
\* the promises of those jobs followed by the seed environment.
C3_OneSinkAfterLeaves ==
  \A k \in DOMAIN subgraphs :
    LET g == subgraphs[k]
        leaves == {n \in g.nodes : \A m \in g.nodes : n \notin Node(m).deps}
        prev == jobs[g.sink].prev
        made == (g.first + 1)..g.sink
    IN  /\ g.sink = g.first + Cardinality(g.nodes) + 1
        /\ {j \in made : jobs[j].kind = "Combine"} = {g.sink}
        /\ FollowedBy(g.sink) = {g.toil_job[n] : n \in leaves}
        /\ Len(prev) = Cardinality(leaves) + 1
        /\ prev[Len(prev)] = Val(g.environment)
        /\ {prev[i] : i \in 1..(Len(prev) - 1)} = {Rv(g.toil_job[n]) : n \in leaves}

\* a subgraph was built for a list with two leaves and two nodes that are not
C3_Witness ==
  \E k \in DOMAIN subgraphs :
    subgraphs[k].nodes = {"decl-a", "decl-b", "decl-c", "decl-d"}

\* C4: under a fair engine and unless a unit fails, once the root workflow
\* job is submitted every submitted unit eventually completes and the root's
\* return reference resolves.
C4_EveryUnitCompletes ==
  (main = "started") ~> (AnyFailed \/ (AllJobsDone /\ RootResolved))

\* a run with a called workflow and a called task ended with every job done
C4_Witness == input.doc = "call" /\ AllJobsDone /\ RootResolved

DeclNodes(nodes) == {n \in nodes : Node(n).kind = "Decl"}

\* the value the node job of declaration n of subgraph g computed for its name
Computed(g, n) == jobs[g.toil_job[n]].rv.env[<<Node(n).name>>]

\* C5: the output of a subgraph binds every seed name; a seed name no body
\* node binds keeps the seed's value, and a name a body declaration binds
\* (also one that shadows a seed name) has the value the declaration computed.
C5_OutputKeepsSeedUnlessShadowed ==
  \A k \in DOMAIN subgraphs :
    LET g == subgraphs[k]
        out == jobs[g.sink].rv.env
        bound == {<<Node(n).name>> : n \in DeclNodes(g.nodes)}
                   \cup {<<Node(n).variable>> : n \in g.nodes \ DeclNodes(g.nodes)}
    IN  jobs[g.sink].status = "done" =>
          /\ DOMAIN g.environment \subseteq DOMAIN out
          /\ \A nm \in (DOMAIN g.environment) \ bound : out[nm] = g.environment[nm]
          /\ \A n \in DeclNodes(g.nodes) :
               /\ <<Node(n).name>> \in DOMAIN out
               /\ out[<<Node(n).name>>] = Computed(g, n)

\* the positions of the environments of the list that bind name n
Binders(ins, n) == {i \in DOMAIN ins : n \in DOMAIN ins[i]}

\* environment i sorts no later than environment j (ascending size, the
\* order of the list kept among equals)
NoLater(ins, i, j) ==
  \/ EnvLen(ins[i]) < EnvLen(ins[j])
  \/ EnvLen(ins[i]) = EnvLen(ins[j]) /\ i <= j

\* C6: combine_bindings returns the right-biased merge of the list sorted
\* ascending by size: the names are the union of the inputs' names, each name
\* has the value of the last environment in sorted order that binds it, and
\* every binding of a strictly largest input survives.
C6_MergeOfSortedList ==
  cb.pc \in {"called", "both"} =>
    /\ DOMAIN cb.out = UNION {DOMAIN cb.in[i] : i \in DOMAIN cb.in}
    /\ \A n \in DOMAIN cb.out :
         \E w \in Binders(cb.in, n) :
           /\ \A i \in Binders(cb.in, n) : NoLater(cb.in, i, w)
           /\ cb.out[n] = cb.in[w][n]
    /\ \A w \in DOMAIN cb.in :
         (\A i \in (DOMAIN cb.in) \ {w} : EnvLen(cb.in[i]) < EnvLen(cb.in[w]))
           => \A n \in DOMAIN cb.in[w] : cb.out[n] = cb.in[w][n]

\* combine_bindings was called on a list whose largest environment comes
\* first and disagrees with a later, smaller one
C6_Witness ==
  /\ cb.pc = "called"
  /\ Len(cb.in) >= 2
  /\ EnvLen(cb.in[1]) > EnvLen(cb.in[2])
  /\ \E n \in (DOMAIN cb.in[1]) \cap (DOMAIN cb.in[2]) : cb.in[1][n] # cb.in[2][n]

\* C7: on a permutation of the list combine_bindings binds the same names,
\* and the two results differ only on a name that two inputs of equal size
\* bind to different values.
C7_OrderMattersOnlyAmongEqualSizes ==
  cb.pc = "both" =>
    /\ DOMAIN cb.out = DOMAIN cb.out2
    /\ \A n \in DOMAIN cb.out :
         cb.out[n] # cb.out2[n] =>
           \E i, j \in DOMAIN cb.in :
             /\ i # j
             /\ EnvLen(cb.in[i]) = EnvLen(cb.in[j])
             /\ n \in (DOMAIN cb.in[i]) \cap (DOMAIN cb.in[j])
             /\ cb.in[i][n] # cb.in[j][n]

\* two orders of one list gave different results
C7_Witness == cb.pc = "both" /\ cb.out # cb.out2

\* C8: two complete runs of the same workflow on the same initial bindings
\* end with equal final environments.
C8_TwoRunsSameFinalEnvironment ==
  (prior.t = "val" /\ AllJobsDone /\ RootResolved) =>
    Resolve(Rv(RootJob)) = prior.env

RECURSIVE Ancestors(_, _)
\* the nodes of the list that n depends on, directly or transitively
Ancestors(nodes, n) ==
  InGraphDeps(nodes, n) \cup UNION {Ancestors(nodes, d) : d \in InGraphDeps(nodes, n)}

\* C9: in a body of declarations, the incoming environment of the node job of
\* a declaration binds every seed name, and binds the name of every
\* declaration of the body it depends on, directly or transitively, to the
\* value that declaration's node job computed; the output of the subgraph
\* binds the name of every declaration of the body to its computed value.
C9_DeclSeesItsDependencies ==
  \A k \in DOMAIN subgraphs :
    LET g == subgraphs[k]
    IN  DeclNodes(g.nodes) = g.nodes =>
          /\ \A n \in g.nodes :
               jobs[g.toil_job[n]].status = "done" =>
                 LET incoming == combine_bindings(PrevEnvs(g.toil_job[n]))
                 IN  /\ DOMAIN g.environment \subseteq DOMAIN incoming
                     /\ \A d \in Ancestors(g.nodes, n) :
                          /\ <<Node(d).name>> \in DOMAIN incoming
                          /\ incoming[<<Node(d).name>>] = Computed(g, d)
          /\ jobs[g.sink].status = "done" =>
               \A n \in g.nodes :
                 /\ <<Node(n).name>> \in DOMAIN jobs[g.sink].rv.env
                 /\ jobs[g.sink].rv.env[<<Node(n).name>>] = Computed(g, n)

\* C10: the environment a scatter job over k >= 1 elements returns holds the
\* value of s of every iteration: whatever an iteration's subgraph bound s to
\* is the value of some name of the aggregated environment.
C10_ScatterKeepsEveryIteration ==
  \A j \in DOMAIN jobs :
    (/\ jobs[j].kind = "Scatter"
     /\ jobs[j].ref = "scatter-p"
     /\ jobs[j].status = "done"
     /\ Resolved(jobs[j].rv)) =>
       LET gather == jobs[jobs[j].rv.job]
           out == Resolve(jobs[j].rv)
       IN  \A i \in DOMAIN gather.prev :
             \E n \in DOMAIN out : out[n] = Resolve(gather.prev[i])[<<"s">>]

\* the input declarations of a workflow, as a set
InputDecls(workflow) == {workflow.inputs[i] : i \in DOMAIN workflow.inputs}

\* C11: when a workflow job runs, an input whose name its combined initial
\* environment binds keeps the supplied value and any other input gets its
\* default; every body declaration's node job sees that value of the input,
\* a declaration that reads only inputs is computed from it, and the final
\* environment of the workflow binds the input to it.
C11_SuppliedInputKept ==
  \A k \in DOMAIN subgraphs :
    LET g == subgraphs[k]
        workflow == Workflow(jobs[g.self].ref)
        supplied == combine_bindings(PrevEnvs(g.self))
    IN  jobs[g.self].kind = "Workflow" =>
          \A d \in InputDecls(workflow) :
            /\ d.name \in DOMAIN g.environment
            /\ g.environment[d.name] =
                 IF d.name \in DOMAIN supplied THEN supplied[d.name]
                 ELSE Eval(d.expr, supplied)
            /\ \A n \in DeclNodes(g.nodes) :
                 jobs[g.toil_job[n]].status = "done" =>
                   /\ combine_bindings(PrevEnvs(g.toil_job[n]))[d.name]
                        = g.environment[d.name]
                   /\ (\A i \in DOMAIN Node(n).expr.reads :
                         \E e \in InputDecls(workflow) : e.name = Node(n).expr.reads[i])
                        => Computed(g, n) = Eval(Node(n).expr, g.environment)
            /\ jobs[g.sink].status = "done" =>
                 /\ d.name \in DOMAIN jobs[g.sink].rv.env
                 /\ jobs[g.sink].rv.env[d.name] = g.environment[d.name]

\* a workflow ran to its end on a supplied input that differs from the
\* default, with a declaration that reads the input computed
C11_Witness ==
  \E k \in DOMAIN subgraphs :
    LET g == subgraphs[k]
    IN  /\ jobs[g.self].kind = "Workflow"
        /\ jobs[g.self].ref = "dag"
        /\ <<"x">> \in DOMAIN input.seed
        /\ jobs[g.sink].status = "done"
        /\ jobs[g.sink].rv.env[<<"x">>] = IntV(MaxSeedVal)
        /\ jobs[g.sink].rv.env[<<"d">>] = IntV(MaxSeedVal + 2)

\* the environment of a task job once its inputs and postinputs are bound
TaskBindings(j) ==
  BindDefaultable(Task(jobs[j].ref).postinputs,
                  BindDefaultable(Task(jobs[j].ref).inputs,
                                  combine_bindings(PrevEnvs(j))).env).env

\* C12: a task job that completes returns an environment whose names are
\* exactly the names of the task's output declarations, each bound to the
\* value of that declaration's expression evaluated in the task's
\* environment of inputs and postinputs.
C12_TaskReturnsEvaluatedOutputs ==
  \A j \in DOMAIN jobs :
    (jobs[j].kind = "Task" /\ jobs[j].status = "done") =>
      LET outputs == Task(jobs[j].ref).outputs
          returned == jobs[j].rv.env
      IN  /\ DOMAIN returned = {outputs[i].name : i \in DOMAIN outputs}
          /\ \A i \in DOMAIN outputs :
               returned[outputs[i].name] = Eval(outputs[i].expr, TaskBindings(j))

\* C13: the name _virtualize_filename returns for a local path that does not
\* start with 'toilfile:' starts with 'toilfile:' and carries the handle of
\* the upload, under which the store holds what the file held at that time;
\* _devirtualize_filename of that name returns a local path whose contents
\* are what the file held when it was virtualized.
C13_DevirtualizeReturnsVirtualizedContents ==
  /\ \A name \in Virtualized :
       /\ ~StartsWith(fs.virt[name].path, "toilfile:")
       /\ StartsWith(name, "toilfile:")
       /\ unpack(Tail(name)).id \in DOMAIN fs.store
       /\ unpack(Tail(name)).size = Size(fs.virt[name].contents)
       /\ fs.store[unpack(Tail(name)).id] = fs.virt[name].contents
  /\ (fs.pc = "devirtualized" /\ fs.last.name \in Virtualized) =>
       /\ ~StartsWith(fs.last.path, "toilfile:")
       /\ fs.last.path \in DOMAIN fs.local
       /\ fs.local[fs.last.path] = fs.virt[fs.last.name].contents

\* a virtualized name was devirtualized after the file it came from had
\* been overwritten
C13_Witness ==
  /\ fs.pc = "devirtualized"
  /\ fs.last.name \in Virtualized
  /\ fs.local[fs.virt[fs.last.name].path] # fs.virt[fs.last.name].contents

\* C14: once main is past its start on a run that is not a restart, of a
\* document with a workflow (with or without an input section), exactly one
\* root workflow job was submitted, for the document's workflow, with the
\* initial input bindings as its only predecessor result (empty bindings
\* when there are no inputs); every other job hangs under another job.
C14_MainSubmitsOneRootJob ==
  (main # "start" /\ ~input.restart /\ HasWorkflow(input.doc)) =>
    /\ main = "started"
    /\ Len(jobs) >= 1
    /\ jobs[RootJob].kind = "Workflow"
    /\ jobs[RootJob].ref = input.doc
    /\ jobs[RootJob].prev = <<Val(input.seed)>>
    /\ \A j \in DOMAIN jobs :
         j # RootJob => \E e \in children \cup followOns : e[2] = j

\* the node jobs that ran
NodeJobsRun == {j \in DOMAIN jobs : jobs[j].kind = "Node" /\ jobs[j].status # "new"}

\* C15: a node job that ran a Call whose callee is neither a task nor a
\* workflow failed with the invalid-type error of WDL, returned nothing and
\* submitted no job.
C15_InvalidCalleeFailsWithInvalidType ==
  \A j \in NodeJobsRun :
    (/\ Node(jobs[j].ref).kind = "Call"
     /\ Node(jobs[j].ref).callee.kind \notin {"Task", "Workflow"}) =>
       /\ jobs[j].status = "failed"
       /\ jobs[j].err = "InvalidType"
       /\ jobs[j].rv = NoItem
       /\ ChildrenOf(j) = {}

\* C16: a node job that ran a node that is not a Decl, a Call or a Scatter
\* failed with the invalid-type error for an unimplemented node, returned no
\* environment and submitted no child; it never completed as if the node
\* were not there, and nothing that waits for it ran.
C16_UnimplementedNodeFails ==
  \A j \in NodeJobsRun :
    Node(jobs[j].ref).kind \notin {"Decl", "Call", "Scatter"} =>
      /\ jobs[j].status = "failed"
      /\ jobs[j].err = "InvalidType"
      /\ jobs[j].rv = NoItem
      /\ ChildrenOf(j) = {}
      /\ \A f \in FollowOnsOf(j) : jobs[f].status = "new"

\* the node job of a Conditional ran
C16_Witness ==
  \E j \in NodeJobsRun : Node(jobs[j].ref).kind = "Conditional"

\* the node list a section job builds its subgraphs on
SectionNodes(j) ==
  IF jobs[j].kind = "Workflow" THEN Workflow(jobs[j].ref).body
  ELSE Node(jobs[j].ref).body

RECURSIVE DepsWithin(_, _, _)
\* the nodes of the list that n depends on through at most k dependencies
DepsWithin(nodes, n, k) ==
  IF k = 0 THEN {}
  ELSE InGraphDeps(nodes, n)
         \cup UNION {DepsWithin(nodes, d, k - 1) : d \in InGraphDeps(nodes, n)}

\* the dependencies among the nodes of the list have no cycle
IsDag(nodes) == \A n \in nodes : n \notin DepsWithin(nodes, n, Cardinality(nodes))

\* C17: in the loop of create_subgraph on a DAG node list every node of the
\* ready set has the job of each of its in-graph dependencies in the
\* id-to-job map already, so the lookup never fails, and every node job was
\* made after the jobs whose promises it reads.
C17_ReadyNodeHasItsDependenciesEmitted ==
  /\ (frame.pc = "loop" /\ IsDag(frame.nodes)) =>
       \A n \in frame.ready : frame.dependency_ids[n] \subseteq DOMAIN frame.toil_job
  /\ \A j \in DOMAIN jobs : jobs[j].err # "KeyError"
  /\ \A g \in Emitted :
       \A n \in DOMAIN g.toil_job :
         /\ \A d \in InGraphDeps(g.nodes, n) :
              d \in DOMAIN g.toil_job /\ g.toil_job[d] < g.toil_job[n]
         /\ \A i \in DOMAIN jobs[g.toil_job[n]].prev :
              jobs[g.toil_job[n]].prev[i].t = "rv" =>
                jobs[g.toil_job[n]].prev[i].job < g.toil_job[n]

\* the loop made the job of a node with two dependencies in the list
C17_Witness == frame.pc = "loop" /\ "decl-c" \in DOMAIN frame.toil_job

\* C18: in the loop of create_subgraph on a DAG node list the ready set is
\* not empty while the outstanding map is not (and is empty when the map
\* is), every iteration so far made the one job of one node, the nodes with a
\* job are those no longer outstanding, and when the call returns every
\* node has exactly one job.
C18_OneIterationPerNode ==
  /\ (frame.pc = "loop" /\ IsDag(frame.nodes)) =>
       LET made == (frame.first + 1)..Len(jobs)
       IN  /\ DOMAIN frame.outstanding # {} => frame.ready # {}
           /\ frame.ready \subseteq DOMAIN frame.outstanding
           /\ DOMAIN frame.toil_job = frame.nodes \ DOMAIN frame.outstanding
           /\ {frame.toil_job[n] : n \in DOMAIN frame.toil_job} = made
           /\ Cardinality(made) = Cardinality(DOMAIN frame.toil_job)
           /\ \A n \in DOMAIN frame.toil_job :
                /\ jobs[frame.toil_job[n]].kind = "Node"
                /\ jobs[frame.toil_job[n]].ref = n
  /\ \A j \in DOMAIN jobs :
       jobs[j].err = "StopIteration" => ~IsDag(SectionNodes(j))
  /\ \A k \in DOMAIN subgraphs :
       IsDag(subgraphs[k].nodes) =>
         /\ DOMAIN subgraphs[k].toil_job = subgraphs[k].nodes
         /\ subgraphs[k].sink = subgraphs[k].first + Cardinality(subgraphs[k].nodes) + 1

\* the loop is at its exit after four iterations on a list of four nodes
C18_Witness ==
  /\ frame.pc = "loop"
  /\ DOMAIN frame.outstanding = {}
  /\ Cardinality(frame.nodes) = 4
  /\ Len(jobs) = frame.first + 4

\* C19 as stated: every node job made by create_subgraph is a child of the
\* section job that builds the subgraph, and a follow-on of the job of each
\* of its in-graph dependencies, whether it has such dependencies or not.
C19_EveryNodeJobIsChildOfSection ==
  \A g \in Emitted :
    \A n \in DOMAIN g.toil_job :
      /\ <<g.self, g.toil_job[n]>> \in children
      /\ \A d \in InGraphDeps(g.nodes, n) :
           <<g.toil_job[d], g.toil_job[n]>> \in followOns

RECURSIVE Attached(_, _)
\* the node job of n hangs under the section job: as a child of it, or as a
\* follow-on of node jobs that do
Attached(g, n) ==
  IF InGraphDeps(g.nodes, n) = {}
    THEN <<g.self, g.toil_job[n]>> \in children
    ELSE \A d \in InGraphDeps(g.nodes, n) :
           /\ d \in DOMAIN g.toil_job
           /\ <<g.toil_job[d], g.toil_job[n]>> \in followOns
           /\ Attached(g, d)

\* C19, amended: every node job made by create_subgraph is a follow-on of
\* the job of each of its in-graph dependencies, and is a child of the
\* section job exactly when it has no in-graph dependency; either way it
\* hangs under the section job through child and follow-on edges.
C19_ChildOfSectionIffNoDependency ==
  \A g \in Emitted :
    \A n \in DOMAIN g.toil_job :
      /\ <<g.self, g.toil_job[n]>> \in children <=> InGraphDeps(g.nodes, n) = {}
      /\ Attached(g, n)

\* in one subgraph a node job without in-graph dependencies is a child of
\* the section job and a node job with two is not
C19_Witness ==
  \E g \in Emitted :
    /\ {"decl-a", "decl-c"} \subseteq DOMAIN g.toil_job
    /\ <<g.self, g.toil_job["decl-a"]>> \in children
    /\ <<g.self, g.toil_job["decl-c"]>> \notin children

\* the node jobs that ran a Call of a task or a workflow to its end
CallJobsDone ==
  {j \in NodeJobsRun :
     /\ jobs[j].status = "done"
     /\ Node(jobs[j].ref).kind = "Call"
     /\ Node(jobs[j].ref).callee.kind \in {"Task", "Workflow"}}

\* C20: a node job that ran a Call of a task or a workflow returned the
\* promise of a combine job over [promise of a namespace job, incoming
\* environment]; the namespace job, for the call's name, takes the promise of
\* the callee's job, which was made with [evaluated call inputs, incoming
\* environment inside the call's namespace]; the namespace job follows on
\* the callee's job and the combine job on the namespace job, and neither
\* ran before the job it follows had finished with its descendants; the
\* combine job's result binds every incoming name and every binding the
\* callee returned under '<call name>.<binding>', with their values.
C20_CallSubmitsCalleeNamespaceCombine ==
  \A j \in CallJobsDone :
    LET node == Node(jobs[j].ref)
        incoming == combine_bindings(PrevEnvs(j))
        combine_job == jobs[j].rv.job
        namespace_job == jobs[combine_job].prev[1].job
        subjob == jobs[namespace_job].prev[1].job
    IN  /\ jobs[j].rv.t = "rv"
        /\ jobs[combine_job].kind = "Combine"
        /\ jobs[combine_job].prev = <<Rv(namespace_job), Val(incoming)>>
        /\ jobs[namespace_job].kind = "Namespace"
        /\ jobs[namespace_job].ref = node.name
        /\ jobs[namespace_job].prev = <<Rv(subjob)>>
        /\ jobs[subjob].kind = node.callee.kind
        /\ jobs[subjob].ref = node.callee.name
        /\ jobs[subjob].prev =
             << Val(evaluate_call_inputs(node.inputs, incoming, EmptyEnv).env),
                Val([m \in {Tail(n) : n \in {q \in DOMAIN incoming :
                                               Len(q) > 1 /\ q[1] = node.name}} |->
                       incoming[<<node.name>> \o m]]) >>
        /\ FollowedBy(namespace_job) = {subjob}
        /\ FollowedBy(combine_job) = {namespace_job}
        /\ {subjob, namespace_job, combine_job} \subseteq ChildrenOf(j)
        /\ jobs[namespace_job].status # "new" =>
             /\ jobs[namespace_job].status = "done"
             /\ SubtreeDone(subjob)
             /\ Resolved(Rv(subjob))
        /\ jobs[combine_job].status # "new" =>
             /\ jobs[combine_job].status = "done"
             /\ jobs[namespace_job].status = "done"
             /\ LET out == jobs[combine_job].rv.env
                    returned == Resolve(Rv(subjob))
                    renamed == {<<node.name>> \o m : m \in DOMAIN returned}
                IN  /\ DOMAIN out = (DOMAIN incoming) \cup renamed
                    /\ \A n \in (DOMAIN incoming) \ renamed : out[n] = incoming[n]
                    /\ \A n \in renamed \ DOMAIN incoming : out[n] = returned[Tail(n)]
                    /\ \A n \in renamed \cap DOMAIN incoming :
                         out[n] \in {incoming[n], returned[Tail(n)]}

\* the call of a workflow, with a binding passed down in its namespace, and
\* the call of a task both came back: the node job's promise resolves to an
\* environment with the callee's bindings under the call's name
C20_Witness ==
  \E j, k \in CallJobsDone :
    /\ <<"cw", "q">> \in DOMAIN input.seed
    /\ Node(jobs[j].ref).callee.kind = "Workflow"
    /\ Node(jobs[k].ref).callee.kind = "Task"
    /\ Resolved(jobs[j].rv)
    /\ Resolved(jobs[k].rv)
    /\ <<"cw", "z">> \in DOMAIN Resolve(jobs[j].rv)
    /\ <<"x">> \in DOMAIN Resolve(jobs[j].rv)
    /\ <<"t", "out">> \in DOMAIN Resolve(jobs[k].rv)

\* the calls of create_subgraph a section job made, in the order made
CallsOf(j) == SelectSeq(subgraphs, LAMBDA g : g.self = j)

\* C21: a scatter job that ran on an array of k elements called
\* create_subgraph k times on the scatter body, the i-th time with the
\* combined incoming environment plus the scatter variable bound to the i-th
\* element (while it runs, once per element so far); it then made one gather
\* job, its child, which follows on exactly the k sinks and whose
\* predecessor results are exactly the k sinks' promises, in order.
C21_ScatterOneSubgraphPerElement ==
  \A j \in DOMAIN jobs :
    (jobs[j].kind = "Scatter" /\ jobs[j].status \in {"running", "done"}) =>
      LET scatter == Node(jobs[j].ref)
          bindings == combine_bindings(PrevEnvs(j))
          array == ScatterArray(scatter)
          calls == CallsOf(j)
      IN  /\ Len(calls) <= Len(array)
          /\ \A i \in DOMAIN calls :
               /\ calls[i].nodes = scatter.body
               /\ DOMAIN calls[i].environment = (DOMAIN bindings) \cup {<<scatter.variable>>}
               /\ calls[i].environment[<<scatter.variable>>] = array[i]
               /\ \A n \in (DOMAIN bindings) \ {<<scatter.variable>>} :
                    calls[i].environment[n] = bindings[n]
          /\ jobs[j].status = "done" =>
               LET gather_job == jobs[j].rv.job
               IN  /\ Len(calls) = Len(array)
                   /\ jobs[j].rv.t = "rv"
                   /\ jobs[gather_job].kind = "Combine"
                   /\ jobs[gather_job].prev = [i \in DOMAIN calls |-> Rv(calls[i].sink)]
                   /\ FollowedBy(gather_job) = {calls[i].sink : i \in DOMAIN calls}
                   /\ ParentsOf(gather_job) = {j}
                   /\ {c \in ChildrenOf(j) : jobs[c].kind = "Combine"}
                        = {calls[i].sink : i \in DOMAIN calls} \cup {gather_job}

\* a scatter job over an array of at least two elements made its gather job
C21_Witness ==
  \E j \in DOMAIN jobs :
    /\ jobs[j].kind = "Scatter"
    /\ jobs[j].status = "done"
    /\ Len(CallsOf(j)) >= 2
    /\ Len(jobs[jobs[j].rv.job].prev) >= 2

\* the names of the steps a job went through, in order
StepNames(j) == [i \in DOMAIN jobs[j].steps |-> jobs[j].steps[i].step]

\* the names of the declarations of a list
DeclNames(decls) == {decls[i].name : i \in DOMAIN decls}

\* C22: a task job goes through inputs, postinputs, runtime, command and
\* outputs in that order; when the command is run every input and postinput
\* declaration is bound; a command that exits with a nonzero code fails the
\* job at that step: the outputs step is not taken and nothing is returned,
\* while a job that returned took all five steps on a command that exited 0.
C22_TaskStepsInOrder ==
  \A j \in DOMAIN jobs :
    (jobs[j].kind = "Task" /\ jobs[j].status # "new") =>
      LET task == Task(jobs[j].ref)
          order == <<"inputs", "postinputs", "runtime", "command", "outputs">>
          names == StepNames(j)
      IN  /\ Len(names) <= Len(order)
          /\ names = SubSeq(order, 1, Len(names))
          /\ \A i \in DOMAIN names :
               names[i] = "command" =>
                 DeclNames(task.inputs) \cup DeclNames(task.postinputs)
                   \subseteq jobs[j].steps[i].bound
          /\ task.exit # 0 =>
               /\ jobs[j].status = "failed"
               /\ jobs[j].err = "CalledProcessError"
               /\ names = SubSeq(order, 1, 4)
               /\ jobs[j].rv = NoItem
          /\ jobs[j].status = "done" => task.exit = 0 /\ names = order

\* a task job failed on its command, after its inputs and postinputs
C22_Witness ==
  \E j \in DOMAIN jobs :
    /\ jobs[j].kind = "Task"
    /\ jobs[j].err = "CalledProcessError"
    /\ Len(jobs[j].steps) = 4

\* C23: the environment the promise returned by a scatter job resolves to
\* binds every name its combined incoming environment binds, whatever the
\* length of the array, the empty array included.
C23_ScatterKeepsIncomingNames ==
  \A j \in DOMAIN jobs :
    (/\ jobs[j].kind = "Scatter"
     /\ jobs[j].status = "done"
     /\ Resolved(jobs[j].rv)) =>
       DOMAIN combine_bindings(PrevEnvs(j)) \subseteq DOMAIN Resolve(jobs[j].rv)

\* the jobs made for the callee of a Call
CalleeJobs == {j \in DOMAIN jobs : jobs[j].kind \in {"Task", "Workflow"} /\ j # RootJob}

\* C24: in the job made for a Call, a name the call's own input expressions
\* give a value to has that value, also when the enclosing environment passes
\* down a value for it in the call's namespace: in the environment a called
\* workflow builds its body on, and in the combined environment of a called
\* task or workflow.
C24_CallInputBeatsPassedDown ==
  /\ \A j \in CalleeJobs :
       \A i \in DOMAIN jobs[j].prev :
         jobs[j].prev[i].t = "val"
  /\ \A j \in CalleeJobs :
       \A n \in DOMAIN jobs[j].prev[1].env :
         combine_bindings(PrevEnvs(j))[n] = jobs[j].prev[1].env[n]
  /\ \A k \in DOMAIN subgraphs :
       subgraphs[k].self \in CalleeJobs =>
         \A n \in DOMAIN jobs[subgraphs[k].self].prev[1].env :
           subgraphs[k].environment[n] = jobs[subgraphs[k].self].prev[1].env[n]

\* the nodes of the list that are on a dependency cycle or depend, directly
\* or not, on a node that is
Stuck(nodes) ==
  LET all(n) == DepsWithin(nodes, n, Cardinality(nodes))
      cyclic == {n \in nodes : n \in all(n)}
  IN  {n \in nodes : n \in cyclic \/ all(n) \cap cyclic # {}}

\* the node jobs a section job made, by the nodes they are for
NodesMadeBy(j) ==
  {jobs[c].ref : c \in {d \in DOMAIN jobs :
                          /\ jobs[d].kind = "Node"
                          /\ jobs[d].ref \in SectionNodes(j)
                          /\ d > j}}

\* C25: on a node list with a dependency cycle (a node that depends on
\* itself included) create_subgraph never reaches its sink: while it loops
\* it has made no job for a node on a cycle or for a node that depends on
\* one, and one job at most for any other node; no call on such a list
\* returned; and the section job ended failed with the error of taking from
\* the empty ready set, having made jobs for exactly the nodes that do not
\* wait for a cycle and no combine job.
C25_CycleStopsWithError ==
  /\ (frame.pc = "loop" /\ ~IsDag(frame.nodes)) =>
       /\ DOMAIN frame.toil_job \cap Stuck(frame.nodes) = {}
       /\ Stuck(frame.nodes) \subseteq DOMAIN frame.outstanding
       /\ Len(jobs) = frame.first + Cardinality(DOMAIN frame.toil_job)
       /\ frame.ready \cap Stuck(frame.nodes) = {}
  /\ \A k \in DOMAIN subgraphs : IsDag(subgraphs[k].nodes)
  /\ \A j \in DOMAIN jobs :
       (/\ jobs[j].kind \in {"Workflow", "Scatter"}
        /\ ~IsDag(SectionNodes(j))
        /\ jobs[j].status \notin {"new", "running"}) =>
          /\ jobs[j].status = "failed"
          /\ jobs[j].err = "StopIteration"
          /\ jobs[j].rv = NoItem
          /\ NodesMadeBy(j) = SectionNodes(j) \ Stuck(SectionNodes(j))
          /\ \A c \in ChildrenOf(j) : jobs[c].kind = "Node"

\* create_subgraph stopped on a list with cycles after making the job of
\* the one node that waits for none
C25_Witness ==
  \E j \in DOMAIN jobs :
    /\ jobs[j].kind = "Workflow"
    /\ jobs[j].err = "StopIteration"
    /\ NodesMadeBy(j) = {"decl-e"}
    /\ Cardinality(Stuck(SectionNodes(j))) = 4

====
